---- MODULE Spec2Model ----
(***************************************************************************)
(* The Deserialize implementation that src/derive/src/deserialize.rs       *)
(* generates for a named-field struct: the Field identifier visitor        *)
(* (visit_str), the per-field value getters built by next_value_getter,    *)
(* and Visitor::visit_map with its key loop and its narrowing statements.  *)
(* One behaviour is one call of visit_map on one map (the field source).   *)
(* expand_deserialize, which emits that implementation or the error list,  *)
(* is modelled beside it: one behaviour of ExpandSpec is one expansion.     *)
(***************************************************************************)
EXTENDS Integers, Sequences, FiniteSets, TLC

VARIABLES
    schema,     \* the struct's fields (self.fields.named with their ProstAttr)
    opts,       \* DeriveMeta: omit_type_errors, use_default_for_missing_fields
    keys,       \* the keys the map yields from next_key, in order
    pos,        \* number of keys taken from the map so far
    values,     \* the value the map held for each key taken, marked unread when
                \* next_value was never called for it
    slots,      \* the `let mut <field> = None;` locals of visit_map
    narrowed,   \* the shadowing `let <field> = ...;` locals of the narrowing statements
    nidx,       \* number of narrowing statements executed
    phase,      \* Empty, Accumulating, Narrowing, Done, Failed
    err,        \* the Err visit_map returned
    record,     \* the Ok(struct) visit_map returned
    input,      \* the DeriveInput given to expand_deserialize
    epc,        \* the statement expand_deserialize is at
    fidx,       \* fields the loop of expand_visitor_impl has taken
    errors,     \* the messages recorded in the Context
    block,      \* deserialization_block
    output      \* what expand_deserialize returned

dvars == <<schema, opts, keys, pos, values, slots, narrowed, nidx, phase, err, record>>

evars == <<input, epc, fidx, errors, block, output>>

vars == <<dvars, evars>>

-----------------------------------------------------------------------------
(* Bounds *)

MaxKeys == 2

-----------------------------------------------------------------------------
(* Values.  Every value carries its shape in t. *)

IntV(n)   == [t |-> "int",   v |-> <<n>>]
StrV(s)   == [t |-> "str",   v |-> s]
SeqV(xs)  == [t |-> "seq",   v |-> xs]
BytesV(bs) == [t |-> "bytes", v |-> bs]
Absent    == [t |-> "none",  v |-> <<>>]
Unread    == [t |-> "unread", v |-> <<>>]
\* A value the map holds for a key whose match arm returned before next_value.
Held(raw) == [t |-> "unread", v |-> <<raw>>]

OPEN  == <<"O", "P", "E", "N">>
DONE  == <<"D", "O", "N", "E">>
QQPAD == <<"Q", "Q", "=", "=">>
BANG  == <<"D", "!", "N", "E">>

\* What the map can hand to next_value.
RawValues ==
    { IntV(7), StrV(OPEN), StrV(DONE), StrV(QQPAD), StrV(BANG),
      SeqV(<<IntV(7), IntV(8)>>),
      SeqV(<<StrV(DONE), StrV(OPEN)>>),
      SeqV(<<StrV(DONE), StrV(BANG), StrV(QQPAD)>>) }

\* An error: its kind, the field (or key) it names, the offending string if any.
\* TypeMismatch is the map's own error from next_value; the model tags it with
\* the field whose value was being read.
NoErr == [kind |-> "none", field |-> "", value |-> <<>>]
Err(k, f, val) == [kind |-> k, field |-> f, value |-> val]

NoRecord == <<>>

\* No expansion under way, nothing returned by expand_deserialize.
NoInput == [data |-> "none", meta_ok |-> TRUE, attrs |-> <<>>]

NoOutput == [kind |-> "none", tokens |-> "none", errs |-> <<>>]

-----------------------------------------------------------------------------
(* The schema: four named fields; kind, modifier and default vary. *)

FieldNames == <<"id", "tags", "status", "blob">>
NF == Len(FieldNames)

\* Keys a map may carry: the field names and a key no field has (a case
\* variant of one).
Keys == {FieldNames[i] : i \in 1..NF} \cup {"Id"}

NoDefault == [has |-> FALSE, v |-> Absent]
SomeDefault(v) == [has |-> TRUE, v |-> v]

\* The default expression of a field (ProstAttr::get_default_value).  It stands
\* where the raw read stands, so it has the raw read's type.
DefaultLiteral(kind, modifier, which) ==
    IF which = "none" THEN NoDefault
    ELSE IF kind = "Scalar"
    THEN (IF modifier = "Repeated" THEN SomeDefault(SeqV(<<IntV(0)>>))
                                   ELSE SomeDefault(IntV(0)))
    ELSE LET s == IF which = "bad" THEN BANG
                  ELSE IF kind = "Enumeration" THEN OPEN ELSE QQPAD
         IN  IF modifier = "Repeated" THEN SomeDefault(SeqV(<<StrV(s)>>))
                                      ELSE SomeDefault(StrV(s))

KindPatterns ==
    { <<"Scalar", "Enumeration", "Bytes", "Scalar">>,
      <<"Enumeration", "Bytes", "Scalar", "Enumeration">>,
      <<"Bytes", "Scalar", "Enumeration", "Bytes">> }

\* "Other" is any modifier the wildcard arm of the narrowing match takes.
ModifierPatterns ==
    { <<"None", "Repeated", "Other", "None">>,
      <<"Repeated", "Other", "None", "Repeated">>,
      <<"Other", "None", "Repeated", "Other">> }

DefaultPatterns ==
    { <<"none", "none", "none", "none">>,
      <<"good", "none", "bad", "none">> }

MkSchema(ks, ms, ds) ==
    [i \in 1..NF |->
        [name     |-> FieldNames[i],
         kind     |-> ks[i],
         modifier |-> ms[i],
         default  |-> DefaultLiteral(ks[i], ms[i], ds[i])]]

Schemas ==
    { MkSchema(ks, ms, ds) :
        ks \in KindPatterns, ms \in ModifierPatterns, ds \in DefaultPatterns }

\* The decode options.  The generator reads omit_type_errors and
\* use_default_for_missing_fields from DeriveMeta; ignoreUnknownFields is the
\* third option a caller may set, which no generated code consults.
Options ==
    [omit_type_errors : BOOLEAN,
     use_default_for_missing_fields : BOOLEAN,
     ignoreUnknownFields : BOOLEAN]

KeySeqs == UNION { [1..n -> Keys] : n \in 0..MaxKeys }

-----------------------------------------------------------------------------
(* Field identifier visitor *)

\* visit_str: `#name => Ok(Field::Variant)` per field, `_ => Err(unknown_field)`.
\* 0 stands for the Err arm.
\* The resolver folding the key's case before matching.
FieldVisitStr_case_folding(sch, key) ==
    LET k == IF key = "Id" THEN "id" ELSE key
    IN  IF \E i \in 1..NF : sch[i].name = k
        THEN CHOOSE i \in 1..NF : sch[i].name = k
        ELSE 0

FieldVisitStr(sch, key) ==
    IF \E i \in 1..NF : sch[i].name = key
    THEN CHOOSE i \in 1..NF : sch[i].name = key
    ELSE 0

-----------------------------------------------------------------------------
(* Reading a raw value as a Rust type: map.next_value::<T>() *)

AllOf(xs, t) == \A i \in 1..Len(xs) : xs[i].t = t

CanRead(ty, raw) ==
    CASE ty = "T"         -> raw.t = "int"
      [] ty = "String"    -> raw.t = "str"
      [] ty = "VecT"      -> raw.t = "seq" /\ AllOf(raw.v, "int")
      [] ty = "VecString" -> raw.t = "seq" /\ AllOf(raw.v, "str")

Ok(v) == [ok |-> TRUE, v |-> v, e |-> "none", bad |-> <<>>]
Fail(e, val) == [ok |-> FALSE, v |-> Absent, e |-> e, bad |-> val]

\* next_value_getter that tests omit_type_errors alone before substituting.
next_value_getter_any_default(omit_type_errors, ty, default_value, raw) ==
    IF omit_type_errors
    THEN (IF CanRead(ty, raw) THEN Ok(raw) ELSE Ok(default_value.v))
    ELSE (IF CanRead(ty, raw) THEN Ok(raw) ELSE Fail("TypeMismatch", <<>>))

\* next_value_getter that always emits `expr?`.
next_value_getter_strict(omit_type_errors, ty, default_value, raw) ==
    IF CanRead(ty, raw) THEN Ok(raw) ELSE Fail("TypeMismatch", <<>>)

\* next_value_getter: `match expr { Ok(v) => v, Err(_) => default }` when
\* omit_type_errors and a default exists, `expr?` otherwise.
next_value_getter(omit_type_errors, ty, default_value, raw) ==
    IF omit_type_errors /\ default_value.has
    THEN (IF CanRead(ty, raw) THEN Ok(raw) ELSE Ok(default_value.v))
    ELSE (IF CanRead(ty, raw) THEN Ok(raw) ELSE Fail("TypeMismatch", <<>>))

-----------------------------------------------------------------------------
(* Enumeration names: <Enum>::from_str_name *)

EnumNames == {OPEN, DONE}

EnumCode(s) == IF s = OPEN THEN 0 ELSE 1

from_str_name(s) ==
    IF s \in EnumNames THEN [some |-> TRUE, v |-> EnumCode(s)]
                       ELSE [some |-> FALSE, v |-> 0]

-----------------------------------------------------------------------------
(* base64::decode, standard alphabet with padding *)

B64Alphabet ==
    << "A","B","C","D","E","F","G","H","I","J","K","L","M","N","O","P",
       "Q","R","S","T","U","V","W","X","Y","Z","a","b","c","d","e","f",
       "g","h","i","j","k","l","m","n","o","p","q","r","s","t","u","v",
       "w","x","y","z","0","1","2","3","4","5","6","7","8","9","+","/" >>

IsB64Char(c) == \E i \in 1..64 : B64Alphabet[i] = c

B64Index(c) == (CHOOSE i \in 1..64 : B64Alphabet[i] = c) - 1

\* The bytes of one quantum of 2, 3 or 4 symbols, or "bad" when its unused
\* low bits are not zero.
B64Quantum(q) ==
    LET n == Len(q)
        a == B64Index(q[1])
        b == B64Index(q[2])
        c == IF n >= 3 THEN B64Index(q[3]) ELSE 0
        d == IF n >= 4 THEN B64Index(q[4]) ELSE 0
        bits == a * 262144 + b * 4096 + c * 64 + d
        b1 == bits \div 65536
        b2 == (bits \div 256) % 256
        b3 == bits % 256
    IN  IF n = 4 THEN [ok |-> TRUE, v |-> <<b1, b2, b3>>]
        ELSE IF n = 3 THEN [ok |-> b3 = 0, v |-> <<b1, b2>>]
        ELSE [ok |-> b2 = 0 /\ b3 = 0, v |-> <<b1>>]

RECURSIVE B64Groups(_)
B64Groups(s) ==
    IF Len(s) = 0 THEN [ok |-> TRUE, v |-> <<>>]
    ELSE LET n    == IF Len(s) >= 4 THEN 4 ELSE Len(s)
             q    == B64Quantum(SubSeq(s, 1, n))
             rest == B64Groups(SubSeq(s, n + 1, Len(s)))
         IN  IF q.ok /\ rest.ok THEN [ok |-> TRUE, v |-> q.v \o rest.v]
             ELSE [ok |-> FALSE, v |-> <<>>]

\* Length a multiple of four, at most two trailing "=", every other symbol of
\* the alphabet.
base64_decode(s) ==
    LET len  == Len(s)
        pad  == IF len >= 2 /\ s[len] = "=" /\ s[len - 1] = "=" THEN 2
                ELSE IF len >= 1 /\ s[len] = "=" THEN 1 ELSE 0
        body == SubSeq(s, 1, len - pad)
    IN  IF len % 4 # 0 \/ (\E i \in 1..Len(body) : ~IsB64Char(body[i]))
        THEN [ok |-> FALSE, v |-> <<>>]
        ELSE B64Groups(body)

-----------------------------------------------------------------------------
(* The value getter of one field: value_getter_expr *)

\* First index of xs whose element fails P, 0 if none.
\* The loop reporting the last failing element instead of returning at the
\* first one.
FirstBadEnum_last(xs) ==
    IF \E i \in 1..Len(xs) : ~from_str_name(xs[i].v).some
    THEN CHOOSE i \in 1..Len(xs) :
            /\ ~from_str_name(xs[i].v).some
            /\ \A j \in (i + 1)..Len(xs) : from_str_name(xs[j].v).some
    ELSE 0

FirstBadEnum(xs) ==
    IF \E i \in 1..Len(xs) : ~from_str_name(xs[i].v).some
    THEN CHOOSE i \in 1..Len(xs) :
            /\ ~from_str_name(xs[i].v).some
            /\ \A j \in 1..(i - 1) : from_str_name(xs[j].v).some
    ELSE 0

FirstBadBytes(xs) ==
    IF \E i \in 1..Len(xs) : ~base64_decode(xs[i].v).ok
    THEN CHOOSE i \in 1..Len(xs) :
            /\ ~base64_decode(xs[i].v).ok
            /\ \A j \in 1..(i - 1) : base64_decode(xs[j].v).ok
    ELSE 0

\* ProtobufType::Enumeration, FieldModifier::Repeated
EnumRepeatedGetter(f, omit, raw) ==
    LET g == next_value_getter(omit, "VecString", f.default, raw)
    IN  IF ~g.ok THEN g
        ELSE IF FirstBadEnum(g.v.v) # 0
             THEN Fail("UnknownEnumVariant", g.v.v[FirstBadEnum(g.v.v)].v)
        ELSE Ok(SeqV([i \in 1..Len(g.v.v) |-> IntV(from_str_name(g.v.v[i].v).v)]))

\* The enumeration getter storing a substituted default as it is, without
\* the name lookup.
EnumGetter_default_unchecked(f, omit, raw) ==
    LET g == next_value_getter(omit, "String", f.default, raw)
    IN  IF ~g.ok THEN g
        ELSE IF ~CanRead("String", raw) THEN Ok(g.v)
        ELSE IF from_str_name(g.v.v).some THEN Ok(IntV(from_str_name(g.v.v).v))
        ELSE Fail("UnknownEnumVariant", g.v.v)

\* The enumeration getter with an unknown name forgiven like a type error.
EnumGetter_lenient_lookup(f, omit, raw) ==
    LET g == next_value_getter(omit, "String", f.default, raw)
    IN  IF ~g.ok THEN g
        ELSE IF from_str_name(g.v.v).some THEN Ok(IntV(from_str_name(g.v.v).v))
        ELSE IF omit /\ f.default.has THEN Ok(f.default.v)
        ELSE Fail("UnknownEnumVariant", g.v.v)

\* ProtobufType::Enumeration, any other modifier
EnumGetter(f, omit, raw) ==
    LET g == next_value_getter(omit, "String", f.default, raw)
    IN  IF ~g.ok THEN g
        ELSE IF from_str_name(g.v.v).some THEN Ok(IntV(from_str_name(g.v.v).v))
        ELSE Fail("UnknownEnumVariant", g.v.v)

\* ProtobufType::Bytes, FieldModifier::Repeated
BytesRepeatedGetter(f, omit, raw) ==
    LET g == next_value_getter(omit, "VecString", f.default, raw)
    IN  IF ~g.ok THEN g
        ELSE IF FirstBadBytes(g.v.v) # 0
             THEN Fail("InvalidByteEncoding", g.v.v[FirstBadBytes(g.v.v)].v)
        ELSE Ok(SeqV([i \in 1..Len(g.v.v) |-> BytesV(base64_decode(g.v.v[i].v).v)]))

\* The bytes getter with a malformed payload forgiven like a type error.
BytesGetter_lenient_decode(f, omit, raw) ==
    LET g == next_value_getter(omit, "String", f.default, raw)
    IN  IF ~g.ok THEN g
        ELSE IF base64_decode(g.v.v).ok THEN Ok(BytesV(base64_decode(g.v.v).v))
        ELSE IF omit /\ f.default.has THEN Ok(f.default.v)
        ELSE Fail("InvalidByteEncoding", g.v.v)

\* ProtobufType::Bytes, any other modifier
BytesGetter(f, omit, raw) ==
    LET g == next_value_getter(omit, "String", f.default, raw)
    IN  IF ~g.ok THEN g
        ELSE IF base64_decode(g.v.v).ok THEN Ok(BytesV(base64_decode(g.v.v).v))
        ELSE Fail("InvalidByteEncoding", g.v.v)

\* The type next_value() is inferred to return for a scalar field.
ScalarType(f) == IF f.modifier = "Repeated" THEN "VecT" ELSE "T"

\* `_ => Some(next_value)`
\* The scalar getter yielding None, not Some(default), when the default stands
\* in for the value.
ScalarGetter_none_on_default(f, omit, raw) ==
    IF omit /\ f.default.has /\ ~CanRead(ScalarType(f), raw)
    THEN Ok(Absent)
    ELSE next_value_getter(omit, ScalarType(f), f.default, raw)

ScalarGetter(f, omit, raw) == next_value_getter(omit, ScalarType(f), f.default, raw)

\* The getter dispatch with the Enumeration arms lost: the wildcard arm takes
\* enumeration fields and stores what next_value returns.
value_getter_expr_no_enum_arm(f, omit, raw) ==
    CASE f.kind = "Bytes" /\ f.modifier = "Repeated" -> BytesRepeatedGetter(f, omit, raw)
      [] f.kind = "Bytes" /\ f.modifier # "Repeated" -> BytesGetter(f, omit, raw)
      [] OTHER ->
            next_value_getter(omit,
                IF f.kind = "Scalar" THEN ScalarType(f)
                ELSE IF f.modifier = "Repeated" THEN "VecString" ELSE "String",
                f.default, raw)

value_getter_expr(f, omit, raw) ==
    CASE f.kind = "Enumeration" /\ f.modifier = "Repeated" -> EnumRepeatedGetter(f, omit, raw)
      [] f.kind = "Enumeration" /\ f.modifier # "Repeated" -> EnumGetter(f, omit, raw)
      [] f.kind = "Bytes" /\ f.modifier = "Repeated"       -> BytesRepeatedGetter(f, omit, raw)
      [] f.kind = "Bytes" /\ f.modifier # "Repeated"       -> BytesGetter(f, omit, raw)
      [] OTHER                                             -> ScalarGetter(f, omit, raw)

-----------------------------------------------------------------------------
(* visit_map *)

\* is_some with the duplicate test lost: a populated local looks empty.
is_some_never(slot) == FALSE

is_some(slot) == slot # Absent

Init ==
    /\ schema \in Schemas
    /\ opts \in Options
    /\ keys \in KeySeqs
    /\ pos = 0
    /\ values = <<>>
    /\ slots = [i \in 1..NF |-> Absent]
    /\ narrowed = [i \in 1..NF |-> Absent]
    /\ nidx = 0
    /\ phase = "Empty"
    /\ err = NoErr
    /\ record = NoRecord
    /\ input = NoInput
    /\ epc = "idle"
    /\ fidx = 0
    /\ errors = <<>>
    /\ block = "none"
    /\ output = NoOutput

\* #(#var_decls)* : `let mut <field> = None;` for every field.
Begin ==
    /\ phase = "Empty"
    /\ slots' = [i \in 1..NF |-> Absent]
    /\ phase' = "Accumulating"
    /\ UNCHANGED <<schema, opts, keys, pos, values, narrowed, nidx, err, record>>
    /\ UNCHANGED evars

\* The unknown key noted but the loop not left.
ReadUnknownKey_continue ==
    /\ phase = "Accumulating"
    /\ pos < Len(keys)
    /\ FieldVisitStr(schema, keys[pos + 1]) = 0
    /\ pos' = pos + 1
    /\ values' = Append(values, Unread)
    /\ err' = Err("UnknownField", keys[pos + 1], <<>>)
    /\ UNCHANGED <<schema, opts, keys, slots, narrowed, nidx, record, phase>>
    /\ UNCHANGED evars

\* map.next_key()? yields a key the Field visitor rejects.
ReadUnknownKey ==
    /\ phase = "Accumulating"
    /\ pos < Len(keys)
    /\ FieldVisitStr(schema, keys[pos + 1]) = 0
    /\ pos' = pos + 1
    /\ values' = Append(values, Unread)
    /\ err' = Err("UnknownField", keys[pos + 1], <<>>)
    /\ phase' = "Failed"
    /\ UNCHANGED <<schema, opts, keys, slots, narrowed, nidx, record>>
    /\ UNCHANGED evars

\* The duplicate test moved after the value getter: the second value is read
\* and decoded, and only a well-formed one reaches the duplicate error.
ReadDuplicateKey_decode_first ==
    /\ phase = "Accumulating"
    /\ pos < Len(keys)
    /\ LET i == FieldVisitStr(schema, keys[pos + 1])
       IN  /\ i # 0
           /\ is_some(slots[i])
           /\ \E raw \in RawValues :
                LET g == value_getter_expr(schema[i], opts.omit_type_errors, raw)
                IN  /\ values' = Append(values, raw)
                    /\ err' = IF g.ok THEN Err("DuplicateField", schema[i].name, <<>>)
                                      ELSE Err(g.e, schema[i].name, g.bad)
    /\ pos' = pos + 1
    /\ phase' = "Failed"
    /\ UNCHANGED <<schema, opts, keys, slots, narrowed, nidx, record>>
    /\ UNCHANGED evars

\* The match arm of a field whose local is already Some: it returns before
\* the value getter, whatever value the map holds for the key.
ReadDuplicateKey ==
    /\ phase = "Accumulating"
    /\ pos < Len(keys)
    /\ LET i == FieldVisitStr(schema, keys[pos + 1])
       IN  /\ i # 0
           /\ is_some(slots[i])
           /\ err' = Err("DuplicateField", schema[i].name, <<>>)
    /\ \E raw \in RawValues : values' = Append(values, Held(raw))
    /\ pos' = pos + 1
    /\ phase' = "Failed"
    /\ UNCHANGED <<schema, opts, keys, slots, narrowed, nidx, record>>
    /\ UNCHANGED evars

\* The match arm of a field whose local is None: `<field> = <value getter>;`
\* The decoded value stored in the local of the key's position in the source
\* rather than the local of the field the key names.
ReadValue_by_position ==
    /\ phase = "Accumulating"
    /\ pos < Len(keys)
    /\ LET i == FieldVisitStr(schema, keys[pos + 1])
       IN  /\ i # 0
           /\ ~is_some(slots[i])
           /\ \E raw \in RawValues :
                LET g == value_getter_expr(schema[i], opts.omit_type_errors, raw)
                IN  /\ values' = Append(values, raw)
                    /\ IF g.ok
                       THEN /\ slots' = [slots EXCEPT ![pos + 1] = g.v]
                            /\ UNCHANGED <<err, phase>>
                       ELSE /\ err' = Err(g.e, schema[i].name, g.bad)
                            /\ phase' = "Failed"
                            /\ UNCHANGED slots
    /\ pos' = pos + 1
    /\ UNCHANGED <<schema, opts, keys, narrowed, nidx, record>>
    /\ UNCHANGED evars

ReadValue ==
    /\ phase = "Accumulating"
    /\ pos < Len(keys)
    /\ LET i == FieldVisitStr(schema, keys[pos + 1])
       IN  /\ i # 0
           /\ ~is_some(slots[i])
           /\ \E raw \in RawValues :
                LET g == value_getter_expr(schema[i], opts.omit_type_errors, raw)
                IN  /\ values' = Append(values, raw)
                    /\ IF g.ok
                       THEN /\ slots' = [slots EXCEPT ![i] = g.v]
                            /\ UNCHANGED <<err, phase>>
                       ELSE /\ err' = Err(g.e, schema[i].name, g.bad)
                            /\ phase' = "Failed"
                            /\ UNCHANGED slots
    /\ pos' = pos + 1
    /\ UNCHANGED <<schema, opts, keys, narrowed, nidx, record>>
    /\ UNCHANGED evars

\* map.next_key()? yields None: the while loop ends.
\* The loop left for the narrowing statements while the map still has keys.
Exhaust_early ==
    /\ phase = "Accumulating"
    /\ pos <= Len(keys)
    /\ phase' = "Narrowing"
    /\ UNCHANGED <<schema, opts, keys, pos, values, slots, narrowed, nidx, err, record>>
    /\ UNCHANGED evars

Exhaust ==
    /\ phase = "Accumulating"
    /\ pos = Len(keys)
    /\ phase' = "Narrowing"
    /\ UNCHANGED <<schema, opts, keys, pos, values, slots, narrowed, nidx, err, record>>
    /\ UNCHANGED evars

\* The narrowing statement with use_default_for_missing_fields not consulted.
NarrowField_always_default(f, slot, use_default) ==
    CASE f.modifier = "Repeated" ->
            IF is_some(slot) THEN Ok(slot) ELSE Ok(SeqV(<<>>))
      [] f.modifier = "None" ->
            IF f.default.has
            THEN (IF is_some(slot) THEN Ok(slot) ELSE Ok(f.default.v))
            ELSE (IF is_some(slot) THEN Ok(slot) ELSE Fail("MissingField", <<>>))
      [] OTHER -> Ok(slot)

\* The narrowing statement with repeated fields narrowed like required ones.
NarrowField_repeated_required(f, slot, use_default) ==
    CASE f.modifier \in {"Repeated", "None"} ->
            IF use_default /\ f.default.has
            THEN (IF is_some(slot) THEN Ok(slot) ELSE Ok(f.default.v))
            ELSE (IF is_some(slot) THEN Ok(slot) ELSE Fail("MissingField", <<>>))
      [] OTHER -> Ok(slot)

\* The narrowing statement of one field.
NarrowField(f, slot, use_default) ==
    CASE f.modifier = "Repeated" ->
            IF is_some(slot) THEN Ok(slot) ELSE Ok(SeqV(<<>>))
      [] f.modifier = "None" ->
            IF use_default /\ f.default.has
            THEN (IF is_some(slot) THEN Ok(slot) ELSE Ok(f.default.v))
            ELSE (IF is_some(slot) THEN Ok(slot) ELSE Fail("MissingField", <<>>))
      [] OTHER -> Ok(slot)

\* The narrowing statements emitted in reverse declaration order.
Narrow_reverse ==
    /\ phase = "Narrowing"
    /\ nidx < NF
    /\ LET i == NF - nidx
           g == NarrowField(schema[i], slots[i], opts.use_default_for_missing_fields)
       IN  IF g.ok
           THEN /\ narrowed' = [narrowed EXCEPT ![i] = g.v]
                /\ UNCHANGED <<err, phase>>
           ELSE /\ err' = Err(g.e, schema[i].name, g.bad)
                /\ phase' = "Failed"
                /\ UNCHANGED narrowed
    /\ nidx' = nidx + 1
    /\ UNCHANGED <<schema, opts, keys, pos, values, slots, record>>
    /\ UNCHANGED evars

\* #(#var_narrowings)* , one statement per step, in declaration order.
Narrow ==
    /\ phase = "Narrowing"
    /\ nidx < NF
    /\ LET i == nidx + 1
           g == NarrowField(schema[i], slots[i], opts.use_default_for_missing_fields)
       IN  IF g.ok
           THEN /\ narrowed' = [narrowed EXCEPT ![i] = g.v]
                /\ UNCHANGED <<err, phase>>
           ELSE /\ err' = Err(g.e, schema[i].name, g.bad)
                /\ phase' = "Failed"
                /\ UNCHANGED narrowed
    /\ nidx' = nidx + 1
    /\ UNCHANGED <<schema, opts, keys, pos, values, slots, record>>
    /\ UNCHANGED evars

\* Ok(#ident { #(#var_fields),* })
Finish ==
    /\ phase = "Narrowing"
    /\ nidx = NF
    /\ record' = narrowed
    /\ phase' = "Done"
    /\ UNCHANGED <<schema, opts, keys, pos, values, slots, narrowed, nidx, err>>
    /\ UNCHANGED evars

Next ==
    \/ Begin
    \/ ReadUnknownKey
    \/ ReadDuplicateKey
    \/ ReadValue
    \/ Exhaust
    \/ Narrow
    \/ Finish

Spec == Init /\ [][Next]_vars

\* One struct, with every kind of field, a default and a malformed default,
\* under every option setting and every source.
LiveInit ==
    /\ Init
    /\ schema = MkSchema(<<"Scalar", "Enumeration", "Bytes", "Scalar">>,
                         <<"None", "Repeated", "Other", "None">>,
                         <<"good", "none", "bad", "none">>)

\* visit_map is one sequential call: while a statement remains it is executed.
FairSpec == LiveInit /\ [][Next]_vars /\ WF_vars(Next)

-----------------------------------------------------------------------------
(* expand_deserialize *)

MaxFields == 3

DataShapes == {"NamedStruct", "TupleStruct", "UnitStruct", "Enum", "Union"}

\* Per named field, whether ProstAttr::from_ast accepts its attributes.
FieldAttrs == UNION { [1..n -> BOOLEAN] : n \in 0..MaxFields }

\* A derive input: its shape, whether DeriveMeta::from_ast accepts its
\* attributes, and its named fields (none for the other shapes).
Inputs ==
    { [data |-> d, meta_ok |-> m, attrs |-> a] :
        d \in DataShapes, m \in BOOLEAN, a \in FieldAttrs }

\* Context::error_spanned_by: the message joins the recorded errors.
error_spanned_by(errs, msg) == Append(errs, msg)

\* Context::check: Err(errors) when any was recorded, Ok(()) otherwise.
check(errs) == errs # <<>>

ExpandInit ==
    /\ schema = MkSchema(<<"Scalar", "Enumeration", "Bytes", "Scalar">>,
                         <<"None", "Repeated", "Other", "None">>,
                         <<"none", "none", "none", "none">>)
    /\ opts = [omit_type_errors |-> FALSE,
               use_default_for_missing_fields |-> FALSE,
               ignoreUnknownFields |-> FALSE]
    /\ keys = <<>>
    /\ pos = 0
    /\ values = <<>>
    /\ slots = [i \in 1..NF |-> Absent]
    /\ narrowed = [i \in 1..NF |-> Absent]
    /\ nidx = 0
    /\ phase = "Empty"
    /\ err = NoErr
    /\ record = NoRecord
    /\ input \in {x \in Inputs : x.data # "NamedStruct" => x.attrs = <<>>}
    /\ epc = "from_ast"
    /\ fidx = 0
    /\ errors = <<>>
    /\ block = "none"
    /\ output = NoOutput

\* DeriveMeta::from_ast(&context, &input.attrs): Ok(v), or Err(_) with the
\* attribute's error recorded in the context.
DeriveMetaFromAst ==
    /\ epc = "from_ast"
    /\ IF input.meta_ok
       THEN /\ epc' = "data"
            /\ UNCHANGED errors
       ELSE /\ epc' = "meta_err"
            /\ errors' = error_spanned_by(errors, "derive attribute")
    /\ UNCHANGED <<input, fidx, block, output>>
    /\ UNCHANGED dvars

\* Err(_) => { context.check()?; return Ok(quote! {}); }
MetaErrReturn ==
    /\ epc = "meta_err"
    /\ output' = IF check(errors)
                 THEN [kind |-> "Err", tokens |-> "none", errs |-> errors]
                 ELSE [kind |-> "Ok", tokens |-> "empty", errs |-> <<>>]
    /\ epc' = "returned"
    /\ UNCHANGED <<input, fidx, errors, block>>
    /\ UNCHANGED dvars

\* Data::Struct(d) with Fields::Named(f): NamedStructDeserializer::expand.
ExpandStructNamed ==
    /\ epc = "data"
    /\ input.data = "NamedStruct"
    /\ epc' = "fields"
    /\ UNCHANGED <<input, fidx, errors, block, output>>
    /\ UNCHANGED dvars

\* Fields::Unnamed(_): the error recorded, Err(()) turned into an empty block.
ExpandStructUnnamed ==
    /\ epc = "data"
    /\ input.data = "TupleStruct"
    /\ errors' = error_spanned_by(errors, "Not implemented")
    /\ block' = "empty"
    /\ epc' = "check"
    /\ UNCHANGED <<input, fidx, output>>
    /\ UNCHANGED dvars

\* Fields::Unit
ExpandStructUnit ==
    /\ epc = "data"
    /\ input.data = "UnitStruct"
    /\ errors' = error_spanned_by(errors, "Unit struct is not available for deserialization.")
    /\ block' = "empty"
    /\ epc' = "check"
    /\ UNCHANGED <<input, fidx, output>>
    /\ UNCHANGED dvars

\* The Enum arm returning Err(()) with nothing recorded.
ExpandEnum_silent ==
    /\ epc = "data"
    /\ input.data = "Enum"
    /\ block' = "empty"
    /\ epc' = "check"
    /\ UNCHANGED <<input, fidx, errors, output>>
    /\ UNCHANGED dvars

\* Data::Enum(d)
ExpandEnum ==
    /\ epc = "data"
    /\ input.data = "Enum"
    /\ errors' = error_spanned_by(errors, "Not implemented")
    /\ block' = "empty"
    /\ epc' = "check"
    /\ UNCHANGED <<input, fidx, output>>
    /\ UNCHANGED dvars

\* Data::Union(d)
ExpandUnion ==
    /\ epc = "data"
    /\ input.data = "Union"
    /\ errors' = error_spanned_by(errors, "Union type is not available for deserialization.")
    /\ block' = "empty"
    /\ epc' = "check"
    /\ UNCHANGED <<input, fidx, output>>
    /\ UNCHANGED dvars

\* One turn of the field loop: ProstAttr::from_ast(self.context, &field.attrs)?
\* either goes on to build the field's statements or leaves with Err(()), the
\* attribute's error recorded in the context.
ExpandField ==
    /\ epc = "fields"
    /\ fidx < Len(input.attrs)
    /\ IF input.attrs[fidx + 1]
       THEN /\ fidx' = fidx + 1
            /\ UNCHANGED <<errors, block, epc>>
       ELSE /\ errors' = error_spanned_by(errors, "prost attribute")
            /\ block' = "empty"
            /\ epc' = "check"
            /\ UNCHANGED fidx
    /\ UNCHANGED <<input, output>>
    /\ UNCHANGED dvars

\* Ok((visitor_ident, expr)) and the block of expand.
ExpandVisitor ==
    /\ epc = "fields"
    /\ fidx = Len(input.attrs)
    /\ block' = "visitor"
    /\ epc' = "check"
    /\ UNCHANGED <<input, fidx, errors, output>>
    /\ UNCHANGED dvars

\* context.check()?; then Ok(wrap_block(impl_body)).
CheckAndEmit ==
    /\ epc = "check"
    /\ output' = IF check(errors)
                 THEN [kind |-> "Err", tokens |-> "none", errs |-> errors]
                 ELSE [kind |-> "Ok", tokens |-> "impl", errs |-> <<>>]
    /\ epc' = "returned"
    /\ UNCHANGED <<input, fidx, errors, block>>
    /\ UNCHANGED dvars

ExpandNext ==
    \/ DeriveMetaFromAst
    \/ MetaErrReturn
    \/ ExpandStructNamed
    \/ ExpandStructUnnamed
    \/ ExpandStructUnit
    \/ ExpandEnum
    \/ ExpandUnion
    \/ ExpandField
    \/ ExpandVisitor
    \/ CheckAndEmit

ExpandSpec == ExpandInit /\ [][ExpandNext]_vars


-----------------------------------------------------------------------------
(* Vocabulary of the properties *)

Terminal == phase \in {"Done", "Failed"}

\* Positions of the source that carry field i's name.
Occ(i) == {p \in 1..Len(keys) : keys[p] = schema[i].name}

\* Position of the second occurrence of field i's name.
Second(i) == CHOOSE q \in Occ(i) : Cardinality({p \in Occ(i) : p < q}) = 1

\* The call failed while consuming the key at position p.
KeyErrorAt(p) == phase = "Failed" /\ pos = p /\ err.kind # "MissingField"

KeyErrorKinds ==
    {"UnknownField", "DuplicateField", "TypeMismatch",
     "UnknownEnumVariant", "InvalidByteEncoding"}

-----------------------------------------------------------------------------
(* C1 *)

\* C1 as stated: whenever a declared field name appears twice in the source,
\* the finished call has failed with DuplicateField for that name.
C1_AlwaysDuplicateField ==
    Terminal =>
        \A i \in 1..NF :
            Cardinality(Occ(i)) >= 2 =>
                phase = "Failed" /\ err = Err("DuplicateField", schema[i].name, <<>>)

\* C1 amended: a source in which a declared field name appears twice never
\* gets past that name's second occurrence and never succeeds; when the second
\* occurrence is reached (every earlier key was consumed without error) the
\* call fails there with DuplicateField for that name, its value unread;
\* otherwise the call has failed at an earlier key with that key's error.
C1_DuplicateWhenReached ==
    \A i \in 1..NF :
        Cardinality(Occ(i)) >= 2 =>
            /\ pos <= Second(i)
            /\ phase \notin {"Narrowing", "Done"}
            /\ pos = Second(i) =>
                  /\ phase = "Failed"
                  /\ err = Err("DuplicateField", schema[i].name, <<>>)
                  /\ values[pos].t = "unread"
            /\ (Terminal /\ pos < Second(i)) =>
                  /\ pos >= 1
                  /\ err.kind \in KeyErrorKinds

C1_Witness ==
    /\ phase = "Failed"
    /\ err.kind = "DuplicateField"
    /\ Len(keys) = 2
    /\ keys[1] = keys[2]
    /\ values[1].t # "unread"

-----------------------------------------------------------------------------
(* C2 *)

\* C2: once the source is exhausted and narrowing has reached a
\* FieldModifier::None field whose local is None: with
\* use_default_for_missing_fields and a default, the field holds the default
\* and no MissingField names it; in every other case the call has failed at
\* that field with MissingField naming it.  A call never succeeds with such a
\* field left without a value.
C2_MissingOrDefault ==
    /\ \A i \in 1..nidx :
          (schema[i].modifier = "None" /\ slots[i] = Absent) =>
              IF opts.use_default_for_missing_fields /\ schema[i].default.has
              THEN /\ narrowed[i] = schema[i].default.v
                   /\ ~(err.kind = "MissingField" /\ err.field = schema[i].name)
              ELSE /\ phase = "Failed"
                   /\ err = Err("MissingField", schema[i].name, <<>>)
                   /\ nidx = i
    /\ phase = "Done" =>
          \A i \in 1..NF :
              (schema[i].modifier = "None" /\ slots[i] = Absent) =>
                  /\ opts.use_default_for_missing_fields
                  /\ schema[i].default.has
                  /\ record[i] = schema[i].default.v

\* Both halves in one call: one missing field took its default, a later one
\* without a default failed the call.
C2_Witness ==
    /\ phase = "Failed"
    /\ err.kind = "MissingField"
    /\ \E i \in 1..NF :
          /\ i < nidx
          /\ schema[i].modifier = "None"
          /\ slots[i] = Absent
          /\ schema[i].default.has
          /\ opts.use_default_for_missing_fields
          /\ narrowed[i] = schema[i].default.v

-----------------------------------------------------------------------------
(* C3 *)

\* C3: a repeated field the source omits is never named by an error, is
\* narrowed to the empty sequence, and is the empty sequence in the record.
C3_RepeatedAbsentIsEmpty ==
    \A i \in 1..NF :
        (schema[i].modifier = "Repeated" /\ Occ(i) = {}) =>
            /\ err.field # schema[i].name
            /\ (nidx >= i => narrowed[i] = SeqV(<<>>))
            /\ (phase = "Done" => record[i] = SeqV(<<>>))

C3_Witness ==
    /\ phase = "Done"
    /\ \E i \in 1..NF :
          /\ schema[i].modifier = "Repeated"
          /\ Occ(i) = {}
          /\ record[i] = SeqV(<<>>)
    /\ \E i \in 1..NF : schema[i].modifier = "Repeated" /\ schema[i].default.has

-----------------------------------------------------------------------------
(* C4 *)

\* The field a key resolves to, 0 for none.
FieldAt(p) == FieldVisitStr(schema, keys[p])

\* C4 as stated: a consumed key that matches no declared field fails the call
\* with UnknownField when ignoreUnknownFields is not set, and raises no error
\* when it is set.
C4_UnknownFieldUnlessIgnored ==
    \A p \in 1..pos :
        FieldAt(p) = 0 =>
            IF opts.ignoreUnknownFields
            THEN ~KeyErrorAt(p)
            ELSE KeyErrorAt(p) /\ err = Err("UnknownField", keys[p], <<>>)

-----------------------------------------------------------------------------
(* C5 *)

\* C5: a non-repeated scalar field handed a value that is not of the field's
\* type: with omit_type_errors and a default the local holds the default and
\* the key raises no error; otherwise the call fails at that key with
\* TypeMismatch.
C5_ScalarTypeMismatch ==
    \A p \in 1..pos :
        LET i == FieldAt(p) IN
        (/\ i # 0
         /\ schema[i].kind = "Scalar"
         /\ schema[i].modifier # "Repeated"
         /\ values[p].t # "unread"
         /\ values[p].t # "int") =>
            IF opts.omit_type_errors /\ schema[i].default.has
            THEN slots[i] = schema[i].default.v /\ ~KeyErrorAt(p)
            ELSE KeyErrorAt(p) /\ err = Err("TypeMismatch", schema[i].name, <<>>)

\* The default stood in for a mistyped value and the call went on to succeed.
C5_Witness ==
    /\ phase = "Done"
    /\ \E p \in 1..pos :
          /\ FieldAt(p) # 0
          /\ schema[FieldAt(p)].kind = "Scalar"
          /\ schema[FieldAt(p)].modifier # "Repeated"
          /\ values[p].t = "str"
          /\ record[FieldAt(p)] = IntV(0)

-----------------------------------------------------------------------------
(* C6 *)

\* The raw value is not a sequence of the scalar element type.
NotScalarSeq(raw) ==
    raw.t # "seq" \/ \E k \in 1..Len(raw.v) : raw.v[k].t # "int"

\* C6 as stated: under omit_type_errors a repeated scalar field handed a value
\* that is not a sequence of its element type never fails the call; the local
\* holds the default sequence if there is one and the empty sequence if not.
C6_LenientNeverFails ==
    \A p \in 1..pos :
        LET i == FieldAt(p) IN
        (/\ i # 0
         /\ schema[i].kind = "Scalar"
         /\ schema[i].modifier = "Repeated"
         /\ opts.omit_type_errors
         /\ values[p].t # "unread"
         /\ NotScalarSeq(values[p])) =>
            /\ ~KeyErrorAt(p)
            /\ slots[i] = IF schema[i].default.has THEN schema[i].default.v
                                                   ELSE SeqV(<<>>)

\* C6 amended: under omit_type_errors a repeated scalar field handed a value
\* that is not a sequence of its element type holds the default sequence and
\* raises no error if a default is configured; if none is configured the call
\* fails at that key with TypeMismatch.
C6_LenientNeedsDefault ==
    \A p \in 1..pos :
        LET i == FieldAt(p) IN
        (/\ i # 0
         /\ schema[i].kind = "Scalar"
         /\ schema[i].modifier = "Repeated"
         /\ opts.omit_type_errors
         /\ values[p].t # "unread"
         /\ NotScalarSeq(values[p])) =>
            IF schema[i].default.has
            THEN slots[i] = schema[i].default.v /\ ~KeyErrorAt(p)
            ELSE KeyErrorAt(p) /\ err = Err("TypeMismatch", schema[i].name, <<>>)

C6_Witness ==
    /\ phase = "Done"
    /\ opts.omit_type_errors
    /\ \E p \in 1..pos :
          /\ FieldAt(p) # 0
          /\ schema[FieldAt(p)].kind = "Scalar"
          /\ schema[FieldAt(p)].modifier = "Repeated"
          /\ NotScalarSeq(values[p])
          /\ record[FieldAt(p)] = SeqV(<<IntV(0)>>)

-----------------------------------------------------------------------------
(* C7 *)

\* C7: a non-repeated enumeration field handed a string: OPEN stores 0, DONE
\* stores 1 and the key raises no error; any other string fails the call at
\* that key with UnknownEnumVariant carrying the string, whatever
\* omit_type_errors is and whether or not the field has a default.
C7_EnumLookup ==
    \A p \in 1..pos :
        LET i == FieldAt(p) IN
        (/\ i # 0
         /\ schema[i].kind = "Enumeration"
         /\ schema[i].modifier # "Repeated"
         /\ values[p].t = "str") =>
            /\ values[p].v = OPEN => (slots[i] = IntV(0) /\ ~KeyErrorAt(p))
            /\ values[p].v = DONE => (slots[i] = IntV(1) /\ ~KeyErrorAt(p))
            /\ values[p].v \notin {OPEN, DONE} =>
                  /\ KeyErrorAt(p)
                  /\ err = Err("UnknownEnumVariant", schema[i].name, values[p].v)

\* One enumeration field stored DONE's code, a later one with a default
\* failed on an unknown name although omit_type_errors is set.
C7_Witness ==
    /\ phase = "Failed"
    /\ err.kind = "UnknownEnumVariant"
    /\ opts.omit_type_errors
    /\ pos = 2
    /\ schema[FieldAt(2)].default.has
    /\ schema[FieldAt(1)].kind = "Enumeration"
    /\ schema[FieldAt(1)].modifier # "Repeated"
    /\ values[1] = StrV(DONE)
    /\ slots[FieldAt(1)] = IntV(1)

-----------------------------------------------------------------------------
(* C8 *)

\* A string holding a symbol that is neither of the base64 alphabet nor "=".
NotBase64(s) == \E k \in 1..Len(s) : s[k] = "!"

\* C8: a bytes field handed a string that is not base64, alone or inside a
\* sequence of strings for a repeated field, fails the call at that key with
\* InvalidByteEncoding carrying that string, whatever omit_type_errors is and
\* whether or not the field has a default.
C8_InvalidBase64 ==
    \A p \in 1..pos :
        LET i == FieldAt(p) IN
        (i # 0 /\ schema[i].kind = "Bytes") =>
            /\ (/\ schema[i].modifier # "Repeated"
                /\ values[p].t = "str"
                /\ NotBase64(values[p].v)) =>
                  /\ KeyErrorAt(p)
                  /\ err = Err("InvalidByteEncoding", schema[i].name, values[p].v)
            /\ (/\ schema[i].modifier = "Repeated"
                /\ values[p].t = "seq"
                /\ \A k \in 1..Len(values[p].v) : values[p].v[k].t = "str"
                /\ \E k \in 1..Len(values[p].v) : NotBase64(values[p].v[k].v)) =>
                  /\ KeyErrorAt(p)
                  /\ err.kind = "InvalidByteEncoding"
                  /\ err.field = schema[i].name
                  /\ NotBase64(err.value)
                  /\ slots[i] = Absent

C8_Witness ==
    /\ phase = "Failed"
    /\ err.kind = "InvalidByteEncoding"
    /\ opts.omit_type_errors
    /\ schema[FieldAt(pos)].default.has
    /\ schema[FieldAt(pos)].modifier # "Repeated"
    /\ values[pos] = StrV(BANG)

-----------------------------------------------------------------------------
(* C9 *)

\* Fields that must be supplied: FieldModifier::None with no applicable default.
NeedsValue(i) ==
    /\ schema[i].modifier = "None"
    /\ ~(opts.use_default_for_missing_fields /\ schema[i].default.has)

MissingFields == {i \in 1..NF : NeedsValue(i) /\ Occ(i) = {}}

FirstMissing == CHOOSE i \in MissingFields : \A j \in MissingFields : i <= j

\* C9: when no error occurred while reading keys and fields that must be
\* supplied are missing from the source, the call does not succeed, narrowing
\* never gets past the first of them in declaration order, and the
\* MissingField error names that one, whatever the order of the source's keys.
C9_FirstMissingInSchemaOrder ==
    (phase = "Done" => MissingFields = {})
    /\ ((phase = "Narrowing" /\ MissingFields # {}) => nidx < FirstMissing)
    /\ ((phase = "Failed" /\ err.kind = "MissingField") =>
            /\ MissingFields # {}
            /\ nidx = FirstMissing
            /\ err = Err("MissingField", schema[FirstMissing].name, <<>>))

\* Two fields missing, two supplied, the supplied ones against schema order.
C9_Witness ==
    /\ phase = "Failed"
    /\ err.kind = "MissingField"
    /\ Cardinality(MissingFields) >= 2
    /\ Len(keys) = 2
    /\ FieldAt(1) > FieldAt(2)
    /\ FieldAt(2) > FirstMissing

-----------------------------------------------------------------------------
(* C10 *)

\* C10: the call reports the first error in processing order and nothing
\* else.  Every key before the last one consumed was consumed without error;
\* an error raised at a key belongs to the last key consumed, no later key and
\* no narrowing statement has run; MissingField is raised only after every key
\* was consumed without error; a failed call returns no record and a
\* successful call no error.
C10_FirstErrorOnly ==
    /\ \A p \in 1..(pos - 1) :
          /\ FieldAt(p) # 0
          /\ values[p].t # "unread"
          /\ slots[FieldAt(p)] # Absent
    /\ Len(values) = pos
    /\ (phase = "Failed") = (err # NoErr)
    /\ (record # NoRecord) => (phase = "Done")
    /\ (phase = "Failed" /\ err.kind # "MissingField") =>
          /\ err.kind \in KeyErrorKinds
          /\ pos >= 1
          /\ nidx = 0
          /\ err.kind = "UnknownField" =>
                (FieldAt(pos) = 0 /\ err.field = keys[pos])
          /\ err.kind # "UnknownField" =>
                (FieldAt(pos) # 0 /\ err.field = keys[pos])
          /\ err.kind = "DuplicateField" =>
                (\E q \in 1..(pos - 1) : keys[q] = keys[pos])
          /\ err.kind \notin {"UnknownField", "DuplicateField"} =>
                (values[pos].t # "unread" /\ slots[FieldAt(pos)] = Absent)
    /\ (phase = "Failed" /\ err.kind = "MissingField") =>
          /\ pos = Len(keys)
          /\ \A p \in 1..pos : FieldAt(p) # 0 /\ slots[FieldAt(p)] # Absent

\* The first key failed on its value; the second key is unknown and fields
\* that must be supplied are missing, yet neither is reported.
C10_Witness ==
    /\ phase = "Failed"
    /\ pos = 1
    /\ Len(keys) = 2
    /\ err.kind = "TypeMismatch"
    /\ FieldAt(2) = 0
    /\ MissingFields # {}

-----------------------------------------------------------------------------
(* C11 *)

\* The decoded form of a well-formed string, written out: enumeration codes
\* and the bytes of the base64 payloads.
ExpectedEnum(s) == IF s = OPEN THEN IntV(0) ELSE IntV(1)

ExpectedBytes(s) ==
    IF s = OPEN THEN BytesV(<<56, 241, 13>>)
    ELSE IF s = DONE THEN BytesV(<<12, 227, 68>>)
    ELSE BytesV(<<65>>)

WellFormedOne(kind, x) ==
    CASE kind = "Scalar"      -> x.t = "int"
      [] kind = "Enumeration" -> x.t = "str" /\ x.v \in {OPEN, DONE}
      [] kind = "Bytes"       -> x.t = "str" /\ x.v \in {OPEN, DONE, QQPAD}

ExpectedOne(kind, x) ==
    CASE kind = "Scalar"      -> x
      [] kind = "Enumeration" -> ExpectedEnum(x.v)
      [] kind = "Bytes"       -> ExpectedBytes(x.v)

\* A value of the field's shape whose content decodes.
WellFormed(f, raw) ==
    IF f.modifier = "Repeated"
    THEN raw.t = "seq" /\ \A k \in 1..Len(raw.v) : WellFormedOne(f.kind, raw.v[k])
    ELSE WellFormedOne(f.kind, raw)

Expected(f, raw) ==
    IF f.modifier = "Repeated"
    THEN SeqV([k \in 1..Len(raw.v) |-> ExpectedOne(f.kind, raw.v[k])])
    ELSE ExpectedOne(f.kind, raw)

\* No key outside the schema, no field twice, every FieldModifier::None field
\* once, and every value handed out so far well-formed.
WellFormedSource ==
    /\ \A p \in 1..Len(keys) : \E i \in 1..NF : schema[i].name = keys[p]
    /\ \A i \in 1..NF :
          /\ Cardinality(Occ(i)) <= 1
          /\ schema[i].modifier = "None" => Cardinality(Occ(i)) = 1
    /\ \A p \in 1..pos :
          /\ values[p].t # "unread"
          /\ WellFormed(schema[FieldAt(p)], values[p])

\* C11: a well-formed source never fails, under any option setting, and in
\* the record returned every supplied field equals the decoded value of the
\* source entry of its name; an omitted repeated field is the empty sequence.
C11_WellFormedSucceeds ==
    WellFormedSource =>
        /\ phase # "Failed"
        /\ err = NoErr
        /\ phase = "Done" =>
              \A i \in 1..NF :
                  /\ \A p \in Occ(i) : record[i] = Expected(schema[i], values[p])
                  /\ (Occ(i) = {} /\ schema[i].modifier = "Repeated") =>
                        record[i] = SeqV(<<>>)

\* A two-key source decoded to the end, one of its values padded base64.
C11_Witness ==
    /\ WellFormedSource
    /\ phase = "Done"
    /\ Len(keys) = 2
    /\ \E p \in 1..2 :
          /\ schema[FieldAt(p)].kind = "Bytes"
          /\ values[p] = StrV(QQPAD)
          /\ record[FieldAt(p)] = BytesV(<<65>>)

-----------------------------------------------------------------------------
(* C14 *)

\* C14: at a key whose field already holds a value the decode stops with
\* duplicate_field for that key and the value the source holds for it is
\* never read: the error is DuplicateField whatever that value is, never a
\* TypeMismatch, UnknownEnumVariant or InvalidByteEncoding.
C14_DuplicateBeforeValue ==
    \A p \in 1..pos :
        (FieldAt(p) # 0 /\ \E q \in 1..(p - 1) : keys[q] = keys[p]) =>
            /\ values[p].t = "unread"
            /\ KeyErrorAt(p)
            /\ err = Err("DuplicateField", keys[p], <<>>)

\* The second occurrence of a bytes or enumeration field holds a value that
\* would fail either stage of its getter.
C14_Witness ==
    /\ pos = 2
    /\ keys[1] = keys[2]
    /\ FieldAt(2) # 0
    /\ schema[FieldAt(2)].kind \in {"Bytes", "Enumeration"}
    /\ values[2].t = "unread"
    /\ values[2].v[1] \in {IntV(7), StrV(BANG)}
    /\ ~value_getter_expr(schema[FieldAt(2)], opts.omit_type_errors, values[2].v[1]).ok
    /\ err.kind = "DuplicateField"

-----------------------------------------------------------------------------
(* C15 *)

\* The value is a sequence of strings.
StringSeq(raw) == raw.t = "seq" /\ \A k \in 1..Len(raw.v) : raw.v[k].t = "str"

\* Positions of the strings that are no enumeration name.
NotInTable(xs) == {k \in 1..Len(xs) : xs[k].v \notin {OPEN, DONE}}

\* C15: a repeated enumeration field handed a sequence of strings: if all are
\* names of the enumeration the local holds their codes, same length and
\* order, and the key raises no error; otherwise the call fails at that key
\* with UnknownEnumVariant carrying the first string of the sequence that is
\* no name, and the field's local stays None.
C15_RepeatedEnum ==
    \A p \in 1..pos :
        LET i == FieldAt(p) IN
        (/\ i # 0
         /\ schema[i].kind = "Enumeration"
         /\ schema[i].modifier = "Repeated"
         /\ StringSeq(values[p])) =>
            LET xs == values[p].v IN
            IF NotInTable(xs) = {}
            THEN /\ ~KeyErrorAt(p)
                 /\ slots[i].t = "seq"
                 /\ Len(slots[i].v) = Len(xs)
                 /\ \A k \in 1..Len(xs) : slots[i].v[k] = ExpectedEnum(xs[k].v)
            ELSE LET k == CHOOSE k \in NotInTable(xs) : \A j \in NotInTable(xs) : k <= j
                 IN  /\ KeyErrorAt(p)
                     /\ err = Err("UnknownEnumVariant", schema[i].name, xs[k].v)
                     /\ slots[i] = Absent

\* A sequence with two strings outside the table, after a known name, fails
\* on the earlier one.
C15_Witness ==
    /\ phase = "Failed"
    /\ FieldAt(pos) # 0
    /\ schema[FieldAt(pos)].kind = "Enumeration"
    /\ schema[FieldAt(pos)].modifier = "Repeated"
    /\ values[pos] = SeqV(<<StrV(DONE), StrV(BANG), StrV(QQPAD)>>)
    /\ err.kind = "UnknownEnumVariant"
    /\ err.value = BANG

-----------------------------------------------------------------------------
(* C16 *)

\* The fields whose declared name is the key, letter for letter.
Verbatim(key) == {i \in 1..NF : schema[i].name = key}

\* C16: a consumed key is taken for a field only if it equals that field's
\* declared name verbatim, and for no more than one field: a local holds a
\* value only if its field's name is among the keys consumed; a key equal to
\* a declared name raises no UnknownField; every other key, a declared name
\* in another case included, fails the call at that key with UnknownField
\* carrying the key, and leaves every local as it was.
C16_VerbatimResolver ==
    /\ \A p \in 1..pos :
          /\ Cardinality(Verbatim(keys[p])) <= 1
          /\ Verbatim(keys[p]) = {} =>
                /\ KeyErrorAt(p)
                /\ err = Err("UnknownField", keys[p], <<>>)
          /\ Verbatim(keys[p]) # {} =>
                /\ ~(KeyErrorAt(p) /\ err.kind = "UnknownField")
                /\ ~KeyErrorAt(p) => \A i \in Verbatim(keys[p]) : slots[i] # Absent
    /\ \A i \in 1..NF :
          slots[i] # Absent => \E p \in 1..pos : keys[p] = schema[i].name

\* "id" was consumed and stored, then "Id" was refused.
C16_Witness ==
    /\ pos = 2
    /\ keys = <<"id", "Id">>
    /\ phase = "Failed"
    /\ err = Err("UnknownField", "Id", <<>>)
    /\ \E i \in 1..NF : schema[i].name = "id" /\ slots[i] # Absent

-----------------------------------------------------------------------------
(* C18 *)

\* The source as a set of key/value pairs: what every permutation of the
\* source has in common.
Pairs == {<<keys[p], values[p]>> : p \in 1..pos}

\* The record computed from the set of pairs alone, field by field.
RecordOf(pairs) ==
    [i \in 1..NF |->
        LET mine == {pr \in pairs : pr[1] = schema[i].name}
            slot == IF mine = {} THEN Absent
                    ELSE value_getter_expr(schema[i], opts.omit_type_errors,
                                           (CHOOSE pr \in mine : TRUE)[2]).v
        IN  NarrowField(schema[i], slot, opts.use_default_for_missing_fields).v]

\* C18: a successful decode of a source without duplicate or unknown keys
\* returns a record that is a function of the set of its key/value pairs, so
\* that every ordering of the same pairs returns the same record.
C18_KeyOrderIndependent ==
    (/\ phase = "Done"
     /\ \A p \in 1..Len(keys) : FieldAt(p) # 0
     /\ \A i \in 1..NF : Cardinality(Occ(i)) <= 1) =>
        /\ pos = Len(keys)
        /\ record = RecordOf(Pairs)

\* Two keys supplied against declaration order, both stored.
C18_Witness ==
    /\ phase = "Done"
    /\ Len(keys) = 2
    /\ FieldAt(1) # 0
    /\ FieldAt(2) # 0
    /\ FieldAt(1) > FieldAt(2)
    /\ record[FieldAt(1)] = slots[FieldAt(1)]
    /\ record[FieldAt(2)] = slots[FieldAt(2)]
    /\ slots[FieldAt(1)] # slots[FieldAt(2)]

-----------------------------------------------------------------------------
(* C19 *)

\* The value cannot be read as the type the field's getter asks for.
Mistyped(f, raw) ==
    CASE f.kind = "Scalar" /\ f.modifier = "Repeated" -> NotScalarSeq(raw)
      [] f.kind = "Scalar" /\ f.modifier # "Repeated" -> raw.t # "int"
      [] f.kind # "Scalar" /\ f.modifier = "Repeated" -> ~StringSeq(raw)
      [] OTHER                                        -> raw.t # "str"

\* The key at p was consumed without error, its mistyped value replaced by
\* the field's default under omit_type_errors.
Substituted(p) ==
    /\ FieldAt(p) # 0
    /\ values[p].t # "unread"
    /\ Mistyped(schema[FieldAt(p)], values[p])
    /\ opts.omit_type_errors
    /\ schema[FieldAt(p)].default.has
    /\ ~KeyErrorAt(p)

\* C19: a field whose mistyped value was replaced by its default is present:
\* its local is Some, a later occurrence of its key fails the call with
\* DuplicateField, and no MissingField names it, narrowing keeping the value
\* of the local, whatever use_default_for_missing_fields is.
C19_SubstitutedIsPresent ==
    \A p \in 1..pos :
        Substituted(p) =>
            LET i == FieldAt(p) IN
            /\ slots[i] # Absent
            /\ \A q \in (p + 1)..pos :
                  keys[q] = keys[p] =>
                      /\ KeyErrorAt(q)
                      /\ err = Err("DuplicateField", keys[p], <<>>)
            /\ ~(err.kind = "MissingField" /\ err.field = schema[i].name)
            /\ (phase = "Narrowing" /\ nidx >= i) => narrowed[i] = slots[i]
            /\ phase = "Done" => record[i] = slots[i]

\* The key of a required field comes again after its value was replaced,
\* with use_default_for_missing_fields off.
C19_Witness ==
    /\ pos = 2
    /\ keys[1] = keys[2]
    /\ Substituted(1)
    /\ schema[FieldAt(1)].modifier = "None"
    /\ ~opts.use_default_for_missing_fields
    /\ slots[FieldAt(1)] = schema[FieldAt(1)].default.v
    /\ err.kind = "DuplicateField"

-----------------------------------------------------------------------------
(* C20 *)

\* The error the second stage of the field's getter raises.
SecondStageError(f) ==
    IF f.kind = "Enumeration" THEN "UnknownEnumVariant" ELSE "InvalidByteEncoding"

\* C20: an enumeration or bytes field handed a value that is not a string
\* (not a sequence of strings, for a repeated field).  With omit_type_errors
\* and a default the key raises no TypeMismatch and the default goes through
\* the name lookup or base64 decoding: the local holds the default's decoded
\* form, or the call fails at that key with the second stage's error carrying
\* the default's string.  Without omit_type_errors or without a default the
\* call fails at that key with TypeMismatch.
C20_DefaultThroughSecondStage ==
    \A p \in 1..pos :
        LET i == FieldAt(p) IN
        (/\ i # 0
         /\ schema[i].kind \in {"Enumeration", "Bytes"}
         /\ values[p].t # "unread"
         /\ Mistyped(schema[i], values[p])) =>
            IF opts.omit_type_errors /\ schema[i].default.has
            THEN /\ ~(KeyErrorAt(p) /\ err.kind = "TypeMismatch")
                 /\ IF WellFormed(schema[i], schema[i].default.v)
                    THEN /\ ~KeyErrorAt(p)
                         /\ slots[i] = Expected(schema[i], schema[i].default.v)
                    ELSE /\ KeyErrorAt(p)
                         /\ err = Err(SecondStageError(schema[i]), schema[i].name, BANG)
                         /\ slots[i] = Absent
            ELSE /\ KeyErrorAt(p)
                 /\ err = Err("TypeMismatch", schema[i].name, <<>>)

\* An integer was handed to a field whose default is no base64 or no name:
\* the default stood in and failed the second stage.
C20_Witness ==
    /\ phase = "Failed"
    /\ FieldAt(pos) # 0
    /\ schema[FieldAt(pos)].kind \in {"Enumeration", "Bytes"}
    /\ values[pos] = IntV(7)
    /\ opts.omit_type_errors
    /\ schema[FieldAt(pos)].default.has
    /\ err.kind = SecondStageError(schema[FieldAt(pos)])
    /\ err.value = BANG

-----------------------------------------------------------------------------
(* C13 *)

\* The phase changes a step may make.
PhaseStep ==
    \/ phase' = phase /\ phase \in {"Accumulating", "Narrowing"}
    \/ phase = "Empty" /\ phase' = "Accumulating"
    \/ phase = "Accumulating" /\ phase' \in {"Narrowing", "Failed"}
    \/ phase = "Narrowing" /\ phase' \in {"Done", "Failed"}

\* Every local is None when accumulation starts.
EntryStep ==
    (phase = "Empty" /\ phase' = "Accumulating") =>
        /\ \A i \in 1..NF : slots'[i] = Absent
        /\ pos' = 0

\* Narrowing is entered with every key of the source consumed.
ExhaustStep ==
    (phase = "Accumulating" /\ phase' = "Narrowing") => pos = Len(keys)

\* C13: a call starts Empty, moves to Accumulating with every local None,
\* moves to Narrowing only when the source has no more keys, ends in Done or
\* Failed (Failed also straight from Accumulating, on a key's error), takes
\* no step out of Done or Failed, and does reach Done or Failed.
C13_Lifecycle ==
    /\ phase = "Empty"
    /\ [][PhaseStep /\ EntryStep /\ ExhaustStep]_vars
    /\ [](phase \in {"Narrowing", "Done"} => pos = Len(keys))
    /\ <>[]Terminal

\* A call that went through all four phases on a two-key source.
C13_Witness ==
    /\ phase = "Done"
    /\ pos = 2
    /\ Len(keys) = 2
    /\ nidx = NF

-----------------------------------------------------------------------------
(* C17 *)

\* The message the arm of the input's shape records.
ShapeMessage(d) ==
    CASE d = "TupleStruct" -> "Not implemented"
      [] d = "UnitStruct"  -> "Unit struct is not available for deserialization."
      [] d = "Enum"        -> "Not implemented"
      [] d = "Union"       -> "Union type is not available for deserialization."

\* C17: expand_deserialize on an enum, a union, a tuple struct or a unit
\* struct returns Err with the recorded errors, never tokens: no implementation
\* of Deserialize is emitted.  When the derive attributes were accepted the
\* list holds the message of the shape's arm.
C17_OnlyNamedStructs ==
    (epc = "returned" /\ input.data \in DataShapes \ {"NamedStruct"}) =>
        /\ output.kind = "Err"
        /\ output.tokens = "none"
        /\ output.errs # <<>>
        /\ output.errs = errors
        /\ input.meta_ok => output.errs = <<ShapeMessage(input.data)>>

\* An enum whose derive attributes were accepted came back as the error list.
C17_Witness ==
    /\ epc = "returned"
    /\ input.data = "Enum"
    /\ input.meta_ok
    /\ output.kind = "Err"
    /\ output.errs = <<"Not implemented">>

====
